---- MODULE Spec2Model ----
(***************************************************************************)
(* The staking game of src/staking_game.py: class Scenario, its sequential *)
(* best-response optimizer and its stake metrics.                          *)
(*                                                                         *)
(* Numbers.  The program is Python 2.  Holdings are either Python ints     *)
(* (scenario1, line 96) or Python floats (the file scenario, line 106).    *)
(* An amount is the pair <<n, d>>, the exact fraction n/d in lowest terms. *)
(* On ints `/` is floor division (d stays 1); on floats it is modelled as  *)
(* exact division, the rounding of the last bit left out.  EPS = 0.1 is    *)
(* the fraction 1/10.                                                      *)
(***************************************************************************)
EXTENDS Integers, Sequences, FiniteSets, TLC

\* ---------------------------------------------------------------- bounds
MaxHolders == 3
MaxAmount == 3
MaxValidators == 3
MaxCycles == 5

\* ------------------------------------------------------ program constants
EPS == <<1, 10>>

Scenario1Validators == 5

Scenario1Holdings == <<1, 1, 1, 1, 1, 1, 2, 2, 2, 2, 6, 8, 12, 13, 15, 23, 160, 140>>

VARIABLES
    number_of_validators,   \* self.number_of_validators
    holdings,               \* self.holdings: holder index 0..H-1 -> number
    distribution,           \* self.distribution: holder index -> sequence of amounts
    floats,                 \* TRUE: the holdings are Python floats; FALSE: Python ints
    pc,                     \* "new" | "idle" | "sweep": where the single thread is
    call,                   \* the call in progress or, when idle, the call that returned last
    returned,               \* what that call returned ("None" while it runs)
    holder,                 \* loop variable of optimize_all_holders
    changes_made,           \* local of optimize_all_holders
    c,                      \* local of optimize(): the cycle count it prints
    pre,                    \* the distribution when the sweep in progress began
    trace,                  \* the optimize_holder calls of the sweep in progress
    run,                    \* "fresh": no call yet; "optimize": optimize() alone; "other"
    quiet                   \* the last optimize_all_holders() returned False, and
                            \* only optimize_all_holders() was called since

vars == <<number_of_validators, holdings, distribution, floats, pc, call, returned,
          holder, changes_made, c, pre, trace, run, quiet>>

\* ------------------------------------------------------------ arithmetic
RECURSIVE GCD(_, _)
GCD(a, b) == IF b = 0 THEN a ELSE GCD(b, a % b)

\* the fraction n/d (n >= 0, d > 0) in lowest terms
Norm(n, d) == LET g == GCD(n, d) IN <<n \div g, d \div g>>

\* a + b
Plus(a, b) == Norm(a[1] * b[2] + b[1] * a[2], a[2] * b[2])

\* a >= b
GE(a, b) == a[1] * b[2] >= b[1] * a[2]

\* a <= b
LE(a, b) == GE(b, a)

\* Python 2 `a / k`: floor division on ints, true division on floats
Div(a, k, fl) == IF fl THEN Norm(a[1], a[2] * k) ELSE <<a[1] \div k, 1>>

\* a holding as it is stored in self.holdings
Amount(n) == <<n, 1>>

\* a - b, for a >= b
Minus(a, b) == Norm(a[1] * b[2] - b[1] * a[2], a[2] * b[2])

\* the exact quotient a / b, for b # 0
Ratio(a, b) == Norm(a[1] * b[2], a[2] * b[1])

\* Python 2 `a / b` of two amounts, b # 0: floor division on ints (both
\* have d = 1), true division on floats
DivAmounts(a, b, fl) == IF fl THEN Ratio(a, b) ELSE <<a[1] \div b[1], 1>>

RECURSIVE SumSeq(_)
SumSeq(s) == IF s = <<>> THEN <<0, 1>> ELSE Plus(s[1], SumSeq(Tail(s)))

RECURSIVE InsertSorted(_, _)
InsertSorted(x, s) ==
    IF s = <<>> THEN <<x>>
    ELSE IF LE(x, s[1]) THEN <<x>> \o s
    ELSE <<s[1]>> \o InsertSorted(x, Tail(s))

\* sorted(s), ascending
RECURSIVE Sorted(_)
Sorted(s) == IF s = <<>> THEN <<>> ELSE InsertSorted(s[1], Sorted(Tail(s)))

\* mutant of PySuffix: the slice s[:n], the smallest amounts
PyPrefix(s, n) == SubSeq(s, 1, IF n < Len(s) THEN n ELSE Len(s))

\* the Python slice s[-n:]
PySuffix(s, n) ==
    LET len == Len(s)
        start == IF n > 0 THEN (IF len - n > 0 THEN len - n ELSE 0)
                 ELSE (IF -n < len THEN -n ELSE len)
    IN SubSeq(s, start + 1, len)

\* ------------------------------------------------------------- the game
Holders == DOMAIN holdings

\* [amount for amounts in dist.values() for amount in amounts]; the order of
\* the dictionary's values is immaterial, every use sorts the list
RECURSIVE AllAmountsFrom(_, _)
AllAmountsFrom(dist, S) ==
    IF S = {} THEN <<>>
    ELSE LET j == CHOOSE x \in S : \A y \in S : x <= y
         IN dist[j] \o AllAmountsFrom(dist, S \ {j})

AllAmounts(dist) == AllAmountsFrom(dist, DOMAIN dist)

\* mutant of TopAmounts: the slice [-number_of_validators:] is forgotten
TopAmountsAll(dist) == Sorted(AllAmounts(dist))

\* sorted(all_amounts)[-self.number_of_validators:]
TopAmounts(dist) == PySuffix(Sorted(AllAmounts(dist)), number_of_validators)

\* mutant of Without: the holder's own parts are left in the field
WithoutNothing(dist, h) == dist

\* del self.distribution[h]
Without(dist, h) == [j \in (DOMAIN dist) \ {h} |-> dist[j]]

\* mutant of KeepSplitting: a slot no competitor holds is taken as well
KeepSplittingFreeSlots(holding, k, top) ==
    /\ k < number_of_validators
    /\ (k <= Len(top) => GE(Div(holding, k + 1, floats), Plus(top[k], EPS)))

\* mutant of KeepSplitting: no EPS margin
KeepSplittingNoMargin(holding, k, top) ==
    /\ k < Len(top)
    /\ GE(Div(holding, k + 1, floats), top[k])

\* the condition of the while loop of step 3
KeepSplitting(holding, k, top) ==
    /\ k < Len(top)
    /\ GE(Div(holding, k + 1, floats), Plus(top[k], EPS))

\* the while loop of step 3, entered with k
RECURSIVE FindK(_, _, _)
FindK(holding, k, top) ==
    IF KeepSplitting(holding, k, top) THEN FindK(holding, k + 1, top) ELSE k

\* mutant of Allocation: the holding is copied k times, never divided
AllocationUndivided(holding, k) == [i \in 1..k |-> holding]

\* [self.holdings[holder] / k] * k
Allocation(holding, k) == [i \in 1..k |-> Div(holding, k, floats)]

\* steps 1 to 4 of optimize_holder: the allocation of h against the others
BestAllocation(dist, h) ==
    LET top == TopAmounts(Without(dist, h))
        holding == Amount(holdings[h])
    IN Allocation(holding, FindK(holding, 1, top))

\* mutant of Changed: only a different number of parts counts, and only more
ChangedGrew(allocation, a_old) == Len(allocation) > Len(a_old)

\* allocation != a_old
Changed(allocation, a_old) == allocation # a_old

\* mutant of optimize_holder: the allocation is computed against the
\* distribution as it was when the sweep began
optimize_holder_snapshot(dist, h) ==
    LET allocation == BestAllocation(pre, h)
    IN [distribution |-> [dist EXCEPT ![h] = allocation],
        allocation |-> allocation,
        result |-> Changed(allocation, dist[h])]

\* mutant of optimize_holder: the distribution is rebuilt, the other holders
\* going back to one part each
optimize_holder_rebuild(dist, h) ==
    LET allocation == BestAllocation(dist, h)
    IN [distribution |-> [g \in DOMAIN dist |->
                              IF g = h THEN allocation ELSE <<Amount(holdings[g])>>],
        allocation |-> allocation,
        result |-> Changed(allocation, dist[h])]

\* optimize_holder(h) on the distribution dist: the distribution it leaves
\* and the value it returns
optimize_holder(dist, h) ==
    LET allocation == BestAllocation(dist, h)
    IN [distribution |-> [dist EXCEPT ![h] = allocation],
        allocation |-> allocation,
        result |-> Changed(allocation, dist[h])]

\* mutant of AccumulateChange: changes_made = self.optimize_holder(holder)
AccumulateLastOnly(changes, result) == result

\* if self.optimize_holder(holder): changes_made = True
AccumulateChange(changes, result) == changes \/ result

\* mutant of naive_staking_amout: the slice [:n] in place of [-n:]
naive_staking_amout_prefix ==
    LET s == Sorted([i \in 1..Cardinality(DOMAIN holdings) |-> Amount(holdings[i - 1])])
    IN SumSeq(SubSeq(s, 1, IF number_of_validators < Len(s) THEN number_of_validators ELSE Len(s)))

\* sum(sorted(self.holdings)[-self.number_of_validators:])
naive_staking_amout ==
    SumSeq(PySuffix(Sorted([i \in 1..Cardinality(Holders) |-> Amount(holdings[i - 1])]),
                    number_of_validators))

\* sum of the top amounts of the distribution dist
StakingAmout(dist) == SumSeq(TopAmounts(dist))

optimized_staking_amout == StakingAmout(distribution)

\* stake_loss(): the value it returns, or the ZeroDivisionError Python raises
\* on a zero divisor, int or float
stake_loss ==
    IF naive_staking_amout = Amount(0)
    THEN [outcome |-> "ZeroDivisionError", value |-> Amount(0)]
    ELSE [outcome |-> "return",
          value |-> DivAmounts(Minus(naive_staking_amout, optimized_staking_amout),
                               naive_staking_amout, floats)]

\* ------------------------------------------------------------- the calls
\* a Python bool as the caller sees it
PyBool(b) == IF b THEN "True" ELSE "False"

\* Scenario(number_of_validators)
Init ==
    /\ number_of_validators \in (0..MaxValidators) \cup {Scenario1Validators}
    /\ holdings = <<>>
    /\ distribution = <<>>
    /\ floats = FALSE
    /\ pc = "new"
    /\ call = "__init__"
    /\ returned = "None"
    /\ holder = 0
    /\ changes_made = FALSE
    /\ c = 0
    /\ pre = <<>>
    /\ trace = <<>>
    /\ run = "fresh"
    /\ quiet = FALSE

\* the holdings lists given to set_holdings
SmallHoldings == UNION {[0..(n - 1) -> 0..MaxAmount] : n \in 0..MaxHolders}

\* one list of holdings in two index orders, as set_holdings can be given them
OrderExample == <<6, 0, 9, 2>>
OrderExampleReordered == <<9, 6, 2, 0>>
OrderExampleValidators == 3

\* a Python list as the function from its indices 0..len-1
PyList(s) == [i \in 0..(Len(s) - 1) |-> s[i + 1]]

Scenario1 == [i \in 0..(Len(Scenario1Holdings) - 1) |-> Scenario1Holdings[i + 1]]

set_holdings(hs, fl) ==
    /\ pc = "new"
    /\ holdings' = hs
    /\ floats' = fl
    /\ distribution' = [h \in DOMAIN hs |-> <<Amount(hs[h])>>]
    /\ pc' = "idle"
    /\ call' = "set_holdings"
    /\ pre' = distribution'
    /\ UNCHANGED <<number_of_validators, returned, holder, changes_made, c, trace, run,
                   quiet>>

\* a call of optimize_holder(h) from outside the class
OptimizeHolderCall(h) ==
    /\ pc = "idle"
    /\ \E r \in {optimize_holder(distribution, h)} :
          /\ distribution' = r.distribution
          /\ pre' = r.distribution
          /\ returned' = PyBool(r.result)
    /\ call' = "optimize_holder"
    /\ run' = "other"
    /\ quiet' = FALSE
    /\ c' = 0
    /\ UNCHANGED <<number_of_validators, holdings, floats, pc, holder, changes_made, trace>>

\* a call of optimize_all_holders() from outside the class: up to the loop
OptimizeAllHoldersCall ==
    /\ pc = "idle"
    /\ pc' = "sweep"
    /\ call' = "optimize_all_holders"
    /\ returned' = "None"
    /\ holder' = 0
    /\ changes_made' = FALSE
    /\ c' = 0
    /\ run' = "other"
    /\ UNCHANGED <<number_of_validators, holdings, distribution, floats, pre, trace, quiet>>

\* a call of optimize(): c = 0, c += 1, and into the first optimize_all_holders()
OptimizeCall ==
    /\ pc = "idle"
    /\ pc' = "sweep"
    /\ call' = "optimize"
    /\ returned' = "None"
    /\ holder' = 0
    /\ changes_made' = FALSE
    /\ c' = 1
    /\ run' = IF run = "fresh" THEN "optimize" ELSE "other"
    /\ quiet' = FALSE
    /\ UNCHANGED <<number_of_validators, holdings, distribution, floats, pre, trace>>

\* one iteration of the for loop of optimize_all_holders
SweepStep ==
    /\ pc = "sweep"
    /\ holder < Cardinality(Holders)
    /\ \E r \in {optimize_holder(distribution, holder)} :
          /\ distribution' = r.distribution
          /\ changes_made' = AccumulateChange(changes_made, r.result)
          /\ trace' = Append(trace, [holder |-> holder, allocation |-> r.allocation,
                                     result |-> r.result])
    /\ holder' = holder + 1
    /\ UNCHANGED <<number_of_validators, holdings, floats, pc, call, returned, c, pre,
                   run, quiet>>

\* the for loop is over: return changes_made to the outside caller
SweepReturn ==
    /\ pc = "sweep"
    /\ holder = Cardinality(Holders)
    /\ call = "optimize_all_holders"
    /\ pc' = "idle"
    /\ returned' = PyBool(changes_made)
    /\ quiet' = ~changes_made
    /\ holder' = 0
    /\ changes_made' = FALSE
    /\ pre' = distribution
    /\ trace' = <<>>
    /\ UNCHANGED <<number_of_validators, holdings, distribution, floats, call, c, run>>

\* optimize(): the sweep returned True, so c += 1 and the next sweep begins.
\* The count is kept exactly below MaxCycles and stays there once it is reached.
OptimizeNextCycle ==
    /\ pc = "sweep"
    /\ holder = Cardinality(Holders)
    /\ call = "optimize"
    /\ changes_made
    /\ c' = (IF c < MaxCycles THEN c + 1 ELSE c)
    /\ holder' = 0
    /\ changes_made' = FALSE
    /\ pre' = distribution
    /\ trace' = <<>>
    /\ UNCHANGED <<number_of_validators, holdings, distribution, floats, pc, call,
                   returned, run, quiet>>

\* optimize(): the sweep returned False, so break, print c and return
OptimizeReturn ==
    /\ pc = "sweep"
    /\ holder = Cardinality(Holders)
    /\ call = "optimize"
    /\ ~changes_made
    /\ pc' = "idle"
    /\ holder' = 0
    /\ pre' = distribution
    /\ trace' = <<>>
    /\ UNCHANGED <<number_of_validators, holdings, distribution, floats, call, returned,
                   changes_made, c, run, quiet>>

Next ==
    \/ /\ pc = "new"
       /\ number_of_validators <= MaxValidators
       /\ \E hs \in SmallHoldings, fl \in BOOLEAN : set_holdings(hs, fl)
    \/ /\ pc = "new"
       /\ number_of_validators = Scenario1Validators
       /\ set_holdings(Scenario1, FALSE)
    \/ /\ pc = "new"
       /\ number_of_validators = OrderExampleValidators
       /\ \E hs \in {OrderExample, OrderExampleReordered} : set_holdings(PyList(hs), TRUE)
    \/ \E h \in Holders : OptimizeHolderCall(h)
    \/ OptimizeAllHoldersCall
    \/ OptimizeCall
    \/ SweepStep
    \/ SweepReturn
    \/ OptimizeNextCycle
    \/ OptimizeReturn

Spec == Init /\ [][Next]_vars


\* ------------------------------------------------------------ the claims
NumHolders == Cardinality(Holders)

\* optimize_all_holders() has run its loop to the end
SweepFinished == pc = "sweep" /\ holder = NumHolders

\* optimize() has returned
OptimizeReturned == pc = "idle" /\ call = "optimize"

\* a sweep has ended with changes_made = False, or the call whose last sweep
\* did has returned
ConvergencePoint ==
    \/ SweepFinished /\ ~changes_made
    \/ OptimizeReturned
    \/ pc = "idle" /\ call = "optimize_all_holders" /\ returned = "False"

\* the distribution set_holdings produces
InitialDistribution == [h \in Holders |-> <<Amount(holdings[h])>>]

SomeHolderSplit == \E h \in Holders : Len(distribution[h]) >= 2

\* C1: in every state after set_holdings and any sequence of optimize_holder
\* calls, the parts of every holder sum to the holder's holding.
C1_Conservation ==
    pc # "new" => \A h \in Holders : SumSeq(distribution[h]) = Amount(holdings[h])

\* C2: when optimize() has returned, the distribution is a fixed point: for
\* every holder the allocation optimize_holder would compute against the
\* others is the allocation the holder has.
C2_FixedPointAtTermination ==
    OptimizeReturned
        => \A h \in Holders : BestAllocation(distribution, h) = distribution[h]

C2_Witness ==
    /\ OptimizeReturned
    /\ c >= 3
    /\ SomeHolderSplit

\* C3: once optimize_all_holders() has returned False, further calls of it
\* leave the distribution as it is and return False.
C3_Idempotence ==
    [][quiet => /\ distribution' = distribution
                /\ (pc = "sweep" /\ pc' = "idle") => returned' = "False"]_vars

\* a second sweep has run to its end after one that returned False
C3_Witness ==
    /\ quiet
    /\ SweepFinished
    /\ SomeHolderSplit

\* C4 as claimed: after every sweep of optimize(), called on the initial
\* distribution, the optimized stake is at most what it was when the sweep
\* began, which is its value after the sweep before (or on the initial
\* distribution).  Stated on float holdings, where no amount is lost to floor
\* division.
C4_MonotonicAcrossSweeps ==
    (SweepFinished /\ run = "optimize" /\ floats)
        => LE(optimized_staking_amout, StakingAmout(pre))

\* C4 as amended: after every sweep the optimized stake is at most its value
\* on the initial one-part-per-holder distribution.
C4_NeverAboveInitial ==
    SweepFinished => LE(optimized_staking_amout, StakingAmout(InitialDistribution))

\* a sweep that raised the optimized stake, still below the initial value
C4_Witness ==
    /\ SweepFinished
    /\ floats
    /\ run = "optimize"
    /\ ~LE(optimized_staking_amout, StakingAmout(pre))
    /\ ~GE(optimized_staking_amout, StakingAmout(InitialDistribution))

\* C5: at every convergence point the optimized stake is at most the naive
\* stake.
C5_OptimizedAtMostNaive ==
    ConvergencePoint => LE(optimized_staking_amout, naive_staking_amout)

C5_Witness ==
    /\ ConvergencePoint
    /\ pc = "idle"
    /\ SomeHolderSplit
    /\ ~GE(optimized_staking_amout, naive_staking_amout)

\* the field a sequential sweep shows the holder it is about to process: what
\* this sweep wrote for the holders before it, the pre-sweep entries of the rest
SequentialField ==
    [j \in Holders |-> IF j < holder /\ j < Len(trace) THEN trace[j + 1].allocation
                       ELSE pre[j]]

\* C6: a sweep processes the holders in the order 0..H-1, and the allocation
\* it writes for holder i is the best allocation against the allocations
\* written in this sweep for j < i and the pre-sweep allocations for j > i.
C6_SequentialSweep ==
    [][(pc = "sweep" /\ holder < NumHolders)
          => /\ Len(trace) = holder
             /\ holder' = holder + 1
             /\ trace'[holder'].holder = holder
             /\ distribution'[holder] = BestAllocation(SequentialField, holder)
             /\ \A j \in Holders \ {holder} : distribution'[j] = SequentialField[j]]_vars

\* an earlier holder changed in this sweep, and the holder just processed
\* got an allocation the pre-sweep snapshot would not have given it
C6_Witness ==
    /\ pc = "sweep"
    /\ holder >= 2
    /\ Len(trace) = holder
    /\ \E j \in 0..(holder - 2) : trace[j + 1].result
    /\ distribution[holder - 1] # BestAllocation(pre, holder - 1)

\* C7: optimize_holder returns True exactly when the allocation it stores
\* differs from the one the holder had (in a sweep, and called from outside),
\* and optimize_all_holders returns True exactly when one of its
\* optimize_holder calls did.
C7_ChangeSignal ==
    [][/\ (pc = "sweep" /\ holder' = holder + 1)
            => LET e == trace'[Len(trace')]
               IN /\ distribution'[e.holder] = e.allocation
                  /\ e.result <=> (distribution'[e.holder] # distribution[e.holder])
       /\ (pc = "idle" /\ pc' = "idle")
            => (returned' = "True") <=> (distribution' # distribution)
       /\ (pc = "sweep" /\ pc' = "idle" /\ call = "optimize_all_holders")
            => /\ Len(trace) = NumHolders
               /\ (returned' = "True") <=> (\E i \in 1..Len(trace) : trace[i].result)]_vars

\* a sweep is about to return True although its last call returned False
C7_Witness ==
    /\ SweepFinished
    /\ call = "optimize_all_holders"
    /\ changes_made
    /\ Len(trace) >= 2
    /\ ~trace[Len(trace)].result

\* C8: with exactly one holder and number_of_validators >= 1 the holder keeps
\* the single part [holding], no call reports a change, and optimize() ends
\* after one cycle.
C8_SingleHolder ==
    (pc # "new" /\ NumHolders = 1 /\ number_of_validators >= 1)
        => /\ distribution[0] = <<Amount(holdings[0])>>
           /\ \A i \in 1..Len(trace) : ~trace[i].result
           /\ returned # "True"
           /\ OptimizeReturned => c = 1

C8_Witness ==
    /\ NumHolders = 1
    /\ number_of_validators >= 2
    /\ holdings[0] > 0
    /\ OptimizeReturned
    /\ c = 1

\* set_holdings was given the holdings of scenario1 and optimize() was then
\* called, as lines 95 to 97 do
Scenario1Run ==
    /\ pc # "new"
    /\ holdings = Scenario1
    /\ number_of_validators = Scenario1Validators
    /\ run = "optimize"

\* C9: in scenario1 the naive stake is 351, optimize() is in a cycle below
\* MaxCycles whenever it runs, so it returns after a counted, positive number
\* of sweeps, and when it has returned the optimized stake is at most 351.
C9_Scenario1 ==
    Scenario1Run
        => /\ naive_staking_amout = Amount(351)
           /\ c >= 1
           /\ c < MaxCycles
           /\ pc = "idle" => LE(optimized_staking_amout, Amount(351))

C9_Witness ==
    /\ Scenario1Run
    /\ OptimizeReturned
    /\ c >= 2
    /\ ~GE(optimized_staking_amout, Amount(351))

\* C10: with number_of_validators = 0 the naive stake is 0.
C10_ZeroValidatorsNaive ==
    (pc # "new" /\ number_of_validators = 0) => naive_staking_amout = Amount(0)

\* C11: when the naive stake is zero stake_loss() ends in an error and returns
\* no number; otherwise it returns the ratio (naive - optimized) / naive.
C11_StakeLoss ==
    pc # "new"
        => IF naive_staking_amout = Amount(0)
           THEN stake_loss.outcome = "ZeroDivisionError"
           ELSE /\ stake_loss.outcome = "return"
                /\ stake_loss.value
                     = Ratio(Minus(naive_staking_amout, optimized_staking_amout),
                             naive_staking_amout)

\* the competitors' top amounts optimize_holder(h) would work with
TopOfOthers(h) == TopAmounts(Without(distribution, h))

\* optimize_holder(h) can be called in this state: from outside on any
\* holder, inside a sweep on the holder the loop has come to
CallableOn(h) == pc = "idle" \/ (pc = "sweep" /\ h = holder)

\* holding/(j+1) >= top[j-1] + EPS, with top indexed from 0 as in the source
ClearsThreshold(h, j, top) ==
    GE(Div(Amount(holdings[h]), j + 1, floats), Plus(top[j], EPS))

Max2(a, b) == IF a >= b THEN a ELSE b

\* the split counts k with 1 <= k <= max(1, len(top)) whose every j < k
\* clears its threshold
AdmissibleK(h, top) ==
    {k \in 1..Max2(1, Len(top)) : \A j \in 1..(k - 1) : ClearsThreshold(h, j, top)}

\* C13: wherever optimize_holder(h) can be called, the split count it chooses
\* is the largest admissible one, and no larger k' <= len(top) has
\* holding/k' >= top[k'-2] + EPS.
C13_GreedyIsMaximum ==
    \A h \in Holders :
        CallableOn(h)
            => LET top == TopOfOthers(h)
                   k == FindK(Amount(holdings[h]), 1, top)
                   admissible == AdmissibleK(h, top)
               IN /\ k \in admissible
                  /\ \A k2 \in admissible : k2 <= k
                  /\ \A k2 \in (k + 1)..Len(top) : ~ClearsThreshold(h, k2 - 1, top)

\* a holder has been split in two by a call, and a third part was open to it
\* (k < len(top)) but did not clear its threshold
C13_Witness ==
    /\ pc = "sweep"
    /\ \E h \in Holders :
          /\ h < holder
          /\ Len(distribution[h]) = 2
          /\ distribution[h] = BestAllocation(distribution, h)
          /\ Len(TopOfOthers(h)) >= 3
          /\ ~ClearsThreshold(h, 2, TopOfOthers(h))

\* two allocations holder h could hold in place of its own: its holding
\* undivided, and in number_of_validators + 1 parts
OwnAllocations(h) ==
    {Allocation(Amount(holdings[h]), k) : k \in {1, number_of_validators + 1}}

\* a step that is one call of optimize_holder: an iteration of the sweep's
\* loop, or a call from outside
OptimizeHolderStep ==
    \/ pc = "sweep" /\ pc' = "sweep" /\ holder' = holder + 1
    \/ pc = "idle" /\ pc' = "idle" /\ call' = "optimize_holder"

\* C14: the allocation a call of optimize_holder(h) stores does not depend on
\* the allocation h held before the call, and a second optimize_holder(h)
\* right after the call returns False and changes nothing.
C14_OwnPartsExcluded ==
    [][OptimizeHolderStep
          => \E h \in Holders :
                /\ pc = "sweep" => h = holder
                /\ distribution' = [distribution EXCEPT ![h] = distribution'[h]]
                /\ \A a \in OwnAllocations(h) :
                      BestAllocation([distribution EXCEPT ![h] = a], h) = distribution'[h]
                /\ LET second == optimize_holder(distribution', h)
                   IN /\ ~second.result
                      /\ second.distribution = distribution']_vars

\* optimize_holder(h) was called from outside on a split holder whose own
\* parts are among the top amounts of the whole distribution
C14_Witness ==
    /\ pc = "idle"
    /\ call = "optimize_holder"
    /\ \E h \in Holders :
          /\ Len(distribution[h]) >= 2
          /\ distribution[h] = BestAllocation(distribution, h)
          /\ TopAmounts(distribution) # TopOfOthers(h)

\* C16: every holder's entry is a non-empty sequence of equal parts, each of
\* size holding/k.
C16_EqualParts ==
    pc # "new"
        => \A h \in Holders :
              LET k == Len(distribution[h])
              IN /\ k >= 1
                 /\ \A i \in 1..k : distribution[h][i] = Ratio(Amount(holdings[h]), Amount(k))

\* C18: for a holder with holding 0, optimize_holder keeps k = 1 and stores
\* [0], whatever the others hold and whatever number_of_validators is.
C18_ZeroHolding ==
    pc # "new"
        => \A h \in Holders :
              holdings[h] = 0
                  => /\ BestAllocation(distribution, h) = <<Amount(0)>>
                     /\ distribution[h] = <<Amount(0)>>

\* a sweep has processed a holder with holding 0 that had two or more
\* competing amounts before it, one of them 0 as well
C18_Witness ==
    /\ pc = "sweep"
    /\ \E h \in Holders :
          /\ h < holder
          /\ holdings[h] = 0
          /\ Len(TopOfOthers(h)) >= 2
          /\ TopOfOthers(h)[1] = Amount(0)
          /\ SomeHolderSplit

\* C15: a call of optimize_holder(h) changes the entry of h only: holdings,
\* the number of holders, number_of_validators, the distribution's key set and
\* every other holder's entry are as before.
C15_Frame ==
    [][OptimizeHolderStep
          => /\ holdings' = holdings
             /\ number_of_validators' = number_of_validators
             /\ DOMAIN distribution' = DOMAIN distribution
             /\ \E h \in Holders :
                   /\ pc = "sweep" => h = holder
                   /\ \A g \in Holders \ {h} : distribution'[g] = distribution[g]]_vars

\* a sweep is past a holder it re-split while another holder stays split
C15_Witness ==
    /\ pc = "sweep"
    /\ Len(trace) >= 1
    /\ trace[Len(trace)].result
    /\ \E g \in Holders : g # trace[Len(trace)].holder /\ Len(distribution[g]) >= 2

\* the number of parts the holders other than h have in the distribution
PartsOfOthers(h) == Len(AllAmounts(Without(distribution, h)))

\* C20: with number_of_validators >= 1 no holder is split into more than
\* number_of_validators parts, nor, wherever optimize_holder(h) can be called,
\* into more parts than max(1, P), P the number of parts the others have; the
\* distribution has at most H * number_of_validators parts.
C20_SplitBound ==
    (pc # "new" /\ number_of_validators >= 1)
        => /\ \A h \in Holders :
                 /\ Len(distribution[h]) <= number_of_validators
                 /\ CallableOn(h)
                       => LET k == Len(BestAllocation(distribution, h))
                          IN /\ k <= number_of_validators
                             /\ k <= Max2(1, PartsOfOthers(h))
           /\ Len(AllAmounts(distribution)) <= NumHolders * number_of_validators

\* a call has split a holder into number_of_validators >= 2 parts while the
\* others have more parts than that
C20_Witness ==
    /\ pc = "sweep"
    /\ number_of_validators >= 2
    /\ \E h \in Holders :
          /\ h < holder
          /\ distribution[h] = BestAllocation(distribution, h)
          /\ Len(distribution[h]) = number_of_validators
          /\ PartsOfOthers(h) > number_of_validators

\* optimize_all_holders() from holder h on, on the distribution dist: the
\* distribution it leaves
RECURSIVE SweepFrom(_, _)
SweepFrom(dist, h) ==
    IF h >= NumHolders THEN dist
    ELSE SweepFrom(optimize_holder(dist, h).distribution, h + 1)

\* a sweep of optimize() is over and has made changes, so another follows
NextSweepDue == SweepFinished /\ call = "optimize" /\ changes_made

\* C17: for non-negative holdings and number_of_validators >= 1 every call of
\* optimize() returns. What is checked is a consequence: no sweep of optimize()
\* that made changes ends in a distribution from which the next sweep leads
\* back to the distribution this sweep began with, since optimize() would then
\* alternate between the two for ever.
C17_NoTwoCycle ==
    (NextSweepDue /\ number_of_validators >= 1)
        => SweepFrom(distribution, 0) # pre

\* the number of parts of the holder whose holding is amount
PartsOfHolding(amount) ==
    Len(distribution[CHOOSE h \in Holders : holdings[h] = amount])

\* optimize() was the first call after set_holdings and has returned
FreshOptimizeReturned == OptimizeReturned /\ run = "optimize"

\* C19: the outcome depends on the index order of the holders: after
\* optimize() on the float holdings 6, 0, 9, 2 with 3 validators the holder
\* of 9 has two parts and the holder of 6 two, and after optimize() on the
\* same holdings in the order 9, 6, 2, 0 the holder of 9 has three parts and
\* the holder of 6 one.
C19_OrderDependence ==
    (FreshOptimizeReturned /\ floats /\ number_of_validators = OrderExampleValidators)
        => /\ holdings = PyList(OrderExample)
                => PartsOfHolding(9) = 2 /\ PartsOfHolding(6) = 2
           /\ holdings = PyList(OrderExampleReordered)
                => PartsOfHolding(9) = 3 /\ PartsOfHolding(6) = 1

\* optimize() has returned on the holdings in the second order
C19_Witness ==
    /\ FreshOptimizeReturned
    /\ floats
    /\ holdings = PyList(OrderExampleReordered)
    /\ PartsOfHolding(9) = 3

====
